---- MODULE Spec2Model ----
(***************************************************************************)
(* A model of schema.py (version 0.3.1 with parent access): the recursive  *)
(* validation engine Schema.validate, the combinators And, Or, Use,        *)
(* Ensure, EnsureExists, EnsureNotExists, the Optional key marker and the  *)
(* rendering of SchemaError.                                               *)
(*                                                                         *)
(* Python values are tagged records:                                       *)
(*   [k |-> "None"], [k |-> "int", i |-> n], [k |-> "bool", b |-> TRUE],   *)
(*   [k |-> "str", s |-> <<characters>>], [k |-> "list", elems |-> seq],   *)
(*   [k |-> "dict", items |-> sequence of <<key, value>> in insertion      *)
(*   order, keys pairwise distinct].                                       *)
(* Schema fragments are records with a "kind" field.  A formatted          *)
(* auto-message is kept as the record of its format and arguments.         *)
(***************************************************************************)
EXTENDS Integers, Sequences, FiniteSets, TLC

(*************************** Python values *********************************)
None == [k |-> "None"]
True == [k |-> "bool", b |-> TRUE]
False == [k |-> "bool", b |-> FALSE]
IntV(n) == [k |-> "int", i |-> n]
StrV(cs) == [k |-> "str", s |-> cs]
List(es) == [k |-> "list", elems |-> es]
Dict(its) == [k |-> "dict", items |-> its]

Range(f) == {f[i] : i \in DOMAIN f}

\* d.keys(), key in d, d[key] of a Python dict
DictKeys(d) == {it[1] : it \in Range(d.items)}
DictHas(d, key) == key \in DictKeys(d)
DictGet(d, key) == (CHOOSE it \in Range(d.items) : it[1] = key)[2]
\* d[key] = value: replaces the value in place, or appends a new pair
DictSet(d, key, value) ==
    IF DictHas(d, key)
    THEN Dict([j \in DOMAIN d.items |->
                 IF d.items[j][1] = key THEN <<key, value>> ELSE d.items[j]])
    ELSE Dict(Append(d.items, <<key, value>>))
\* dict.__eq__: the same pairs, whatever the insertion order
DictEq(d1, d2) == Range(d1.items) = Range(d2.items)

\* isinstance(data, t) for the builtin types (bool is a subclass of int)
IsInstance(data, t) ==
    CASE t = "object" -> TRUE
      [] t = "int" -> data.k \in {"int", "bool"}
      [] OTHER -> data.k = t

\* s == data for two scalars (True == 1)
PyEq(a, b) ==
    \/ a = b
    \/ a = True /\ b = IntV(1)
    \/ b = True /\ a = IntV(1)
    \/ a = False /\ b = IntV(0)
    \/ b = False /\ a = IntV(0)

(*************************** schema fragments ******************************)
Lit(d) == [kind |-> "lit", lit |-> d]
Type(t) == [kind |-> "type", ty |-> t]
Pred(f) == [kind |-> "pred", fn |-> f]
SchemaNode(s, e) == [kind |-> "schema", sch |-> s, error |-> e]
AndS(as, e) == [kind |-> "and", args |-> as, error |-> e]
OrS(as, e) == [kind |-> "or", args |-> as, error |-> e]
UseS(f, e) == [kind |-> "use", fn |-> f, error |-> e]
EnsureS(key, v, e) == [kind |-> "ensure", key |-> key, val |-> v, error |-> e]
EnsureExistsS(key, e) == [kind |-> "ensureExists", key |-> key, error |-> e]
EnsureNotExistsS(key, e) == [kind |-> "ensureNotExists", key |-> key, error |-> e]
ListS(as) == [kind |-> "list", alts |-> as]
DictS(es) == [kind |-> "dict", entries |-> es]
\* Optional(s, default=..., when=...): the attributes default and when exist
\* only when given (MARKER otherwise)
OptionalS(s, hasDefault, default, hasWhen, when) ==
    [kind |-> "optional", sch |-> s, error |-> None,
     hasDefault |-> hasDefault, default |-> default,
     hasWhen |-> hasWhen, when |-> when]

COMPARABLE == 0
CALLABLE == 1
VALIDATOR == 2
VALIDATOR_WITH_PARENT_ACCESS == 3
TYPE == 4
DICT == 5
ITERABLE == 6

priority(s) ==
    CASE s.kind = "list" -> ITERABLE
      [] s.kind = "dict" -> DICT
      [] s.kind = "type" -> TYPE
      [] s.kind \in {"and", "or", "use", "ensure", "ensureExists",
                     "ensureNotExists"} -> VALIDATOR_WITH_PARENT_ACCESS
      [] s.kind \in {"schema", "optional"} -> VALIDATOR
      [] s.kind = "pred" -> CALLABLE
      [] OTHER -> COMPARABLE

(*************************** results ***************************************)
\* A call returns a value, raises SchemaError(autos, errors), or raises
\* another exception.
Ok(v) == [st |-> "ok", val |-> v, autos |-> <<>>, errors |-> <<>>, exc |-> ""]
Exc(name) == [st |-> "exc", val |-> None, autos |-> <<>>, errors |-> <<>>,
              exc |-> name]
AsList(x) == IF x.k = "pylist" THEN x.l ELSE <<x>>
PyList(l) == [k |-> "pylist", l |-> l]
\* SchemaError.__init__: a channel given as a scalar becomes a list of one
SchemaError(autos, errors) ==
    [st |-> "err", val |-> None, autos |-> AsList(autos),
     errors |-> AsList(errors), exc |-> ""]

AutoMsg(fmt, args) == [k |-> "auto", msg |-> <<fmt>> \o args]

(*************************** user callables ********************************)
\* The callables of the model: what each returns or raises.
\*   isPositive = lambda n: n > 0
\*   anyKey     = lambda k: True
\*   hasA       = enable_parent_access(lambda d, p: "a" in p)
\*   incr       = lambda n: n + 1
\*   int        = the builtin int
Ret(v) == [st |-> "ok", val |-> v, exc |-> ""]
Raise(name) == [st |-> "exc", val |-> None, exc |-> name]

Call(f, data, parent) ==
    CASE f = "isPositive" ->
           IF data.k = "int" THEN Ret(IF data.i > 0 THEN True ELSE False)
           ELSE IF data.k = "bool" THEN Ret(data)
           ELSE Raise("TypeError")
      [] f = "anyKey" -> Ret(True)
      [] f = "hasA" ->
           IF parent.k = "dict"
           THEN Ret(IF DictHas(parent, StrV(<<"a">>)) THEN True ELSE False)
           ELSE Raise("TypeError")
      [] f = "incr" ->
           IF data.k = "int" THEN Ret(IntV(data.i + 1))
           ELSE IF data.k = "bool" THEN Ret(IntV(IF data.b THEN 2 ELSE 1))
           ELSE Raise("TypeError")
      [] f = "int" ->
           IF data.k = "int" THEN Ret(data)
           ELSE IF data.k = "bool" THEN Ret(IntV(IF data.b THEN 1 ELSE 0))
           ELSE IF data.k = "str" THEN Raise("ValueError")
           ELSE Raise("TypeError")
      [] OTHER -> Raise("NameError")

\* bool(v)
Truthy(v) == v \notin {None, False, IntV(0), StrV(<<>>)}

(*************************** the engine ***********************************)
\* Every result a step needs more than once is handed on as a parameter
\* (the ...Next, ...With operators), so that it is computed once.
RECURSIVE Validate(_, _, _, _)
RECURSIVE AndLoop(_, _, _, _, _)
RECURSIVE OrLoop(_, _, _, _, _, _)
RECURSIVE SeqLoop(_, _, _, _, _, _)
RECURSIVE ScanKeys(_, _, _, _, _, _)
RECURSIVE PairsLoop(_, _, _, _, _)
RECURSIVE WhenLoop(_, _, _, _, _)
RECURSIVE SortedInsert(_, _)
RECURSIVE Sorted(_)

\* statement r1 followed by r2: what r1 raised, or else r2
Then(r1, r2) == IF r1.st = "ok" THEN r2 ELSE r1

\* Rewrap with the custom message given as a scalar: the errors of the
\* levels below are lost
Rewrap_ScalarError(x, e) == SchemaError(PyList(<<None>> \o x.autos), e)

\* except SchemaError as x: raise SchemaError([None] + x.autos, [e] + x.errors)
Rewrap(x, e) == SchemaError(PyList(<<None>> \o x.autos), PyList(<<e>> \o x.errors))

\* data = s.validate(data), r its outcome, and the rest of And's loop
AndNext(self, i, parent, n, r) ==
    IF r.st = "ok" THEN AndLoop(self, i + 1, r.val, parent, n) ELSE r

\* And.validate_with_parent_access: the loop from sub-schema i on
AndLoop(self, i, data, parent, n) ==
    IF i > n THEN Ok(data)
    ELSE AndNext(self, i, parent, n, Validate(self.args[i], self.error, parent, data))

\* raise SchemaError(['%r did not validate %r' % (self, data)] + x.autos,
\*                   [self._error] + x.errors)
OrRaise(self, data, x) ==
    SchemaError(PyList(<<AutoMsg("%r did not validate %r", <<self, data>>)>> \o x.autos),
                PyList(<<self.error>> \o x.errors))

\* OrCatch that keeps the error of the branch that failed first
OrCatch_KeepFirst(x, r) == IF x.autos = <<>> /\ x.errors = <<>> THEN r ELSE x

\* except SchemaError as _x: x = _x
OrCatch(x, r) == r

\* try: return s.validate(data) / except SchemaError as _x: x = _x
OrNext(self, i, data, parent, x, n, r) ==
    IF r.st = "err" THEN OrLoop(self, i + 1, data, parent, OrCatch(x, r), n) ELSE r

\* Or.validate_with_parent_access: the loop from sub-schema i on, x the
\* error of the branch that failed last
OrLoop(self, i, data, parent, x, n) ==
    IF i > n THEN OrRaise(self, data, x)
    ELSE OrNext(self, i, data, parent, x, n,
                Validate(self.args[i], self.error, parent, data))

\* x = SchemaError([], [])
OrStart == SchemaError(PyList(<<>>), PyList(<<>>))

UseResult(self, data, r) ==
    IF r.st = "ok" THEN Ok(r.val)
    ELSE SchemaError(AutoMsg("%s(%r) raised %r", <<self.fn, data, r.exc>>),
                     self.error)

UseValidate(self, data, parent) == UseResult(self, data, Call(self.fn, data, parent))

EnsureValidate(self, data, parent) ==
    IF parent.k # "dict" THEN Exc("TypeError")
    ELSE IF ~DictHas(parent, self.key) THEN Exc("KeyError")
    ELSE Validate(self.val, self.error, parent, DictGet(parent, self.key))

EnsureExistsValidate(self, data, parent) ==
    IF parent.k # "dict" THEN Exc("TypeError")
    ELSE IF DictHas(parent, self.key) THEN Ok(data)
    ELSE SchemaError(AutoMsg("key doesnt exist in parent: %s", <<self.key>>),
                     self.error)

EnsureNotExistsValidate(self, data, parent) ==
    IF parent.k # "dict" THEN Exc("TypeError")
    ELSE IF ~DictHas(parent, self.key) THEN Ok(data)
    ELSE SchemaError(AutoMsg("key exists in parent: %s", <<self.key>>),
                     self.error)

\* s.validate_with_parent_access(data, parent), by the class of s
ValidateWithParentAccess(s, data, parent) ==
    CASE s.kind = "and" -> AndLoop(s, 1, data, parent, Len(s.args))
      [] s.kind = "or" -> OrLoop(s, 1, data, parent, OrStart, Len(s.args))
      [] s.kind = "use" -> UseValidate(s, data, parent)
      [] s.kind = "ensure" -> EnsureValidate(s, data, parent)
      [] s.kind = "ensureExists" -> EnsureExistsValidate(s, data, parent)
      [] OTHER -> EnsureNotExistsValidate(s, data, parent)

SeqNext(s, e, parent, elems, i, out, r) ==
    IF r.st = "ok" THEN SeqLoop(s, e, parent, elems, i + 1, Append(out, r.val))
    ELSE r

\* the ITERABLE flavor's generator: element i on, out the validated prefix
SeqLoop(s, e, parent, elems, i, out) ==
    IF i > Len(elems) THEN Ok(List(out))
    ELSE SeqNext(s, e, parent, elems, i, out,
                 ValidateWithParentAccess(OrS(s.alts, e), elems[i], parent))

\* sorted(s, key=priority): a stable sort of the schema's entries
SortedInsert(sorted, entry) ==
    IF sorted = <<>> THEN <<entry>>
    ELSE IF priority(sorted[Len(sorted)][1]) <= priority(entry[1])
    THEN Append(sorted, entry)
    ELSE Append(SortedInsert(SubSeq(sorted, 1, Len(sorted) - 1), entry),
                sorted[Len(sorted)])

Sorted(entries) ==
    IF entries = <<>> THEN <<>>
    ELSE SortedInsert(Sorted(SubSeq(entries, 1, Len(entries) - 1)),
                      entries[Len(entries)])

\* sorted_skeys without the sort: the schema keys in declaration order
sorted_skeys_Declared(s) == s.entries

sorted_skeys(s) == Sorted(s.entries)

\* The outcome of the scan of the schema keys for one input pair.
\*   "valid": key and value validated by schema key number tried
\*   "raise": the value failed; err is re-raised as it is
\*   "none":  no schema key accepted the key
Scan(st, nkey, nvalue, skey, err, tried) ==
    [st |-> st, nkey |-> nkey, nvalue |-> nvalue, skey |-> skey, err |-> err,
     tried |-> tried]

\* nvalue = Schema(svalue, error=e, parent_data=data).validate(value), rv
ScanValue(skey, i, rk, rv) ==
    IF rv.st = "ok" THEN Scan("valid", rk.val, rv.val, skey, Ok(None), i)
    ELSE Scan("raise", None, None, skey, rv, i)

\* nkey = Schema(skey, error=e, parent_data=data).validate(key), rk
ScanKey(skeys, i, e, data, key, value, rk) ==
    IF rk.st = "err" THEN ScanKeys(skeys, i + 1, e, data, key, value)
    ELSE IF rk.st = "exc" THEN Scan("raise", None, None, skeys[i][1], rk, i)
    ELSE ScanValue(skeys[i][1], i, rk, Validate(skeys[i][2], e, data, value))

\* "for skey in sorted_skeys" for one input pair, from schema key i on
ScanKeys(skeys, i, e, data, key, value) ==
    IF i > Len(skeys) THEN Scan("none", None, None, Lit(None), Ok(None), Len(skeys))
    ELSE ScanKey(skeys, i, e, data, key, value,
                 Validate(skeys[i][1], e, data, key))

\* The state of the DICT flavor's loop over data.items()
MatchState(new, x, coverage, covered_optionals) ==
    [new |-> new, x |-> x, coverage |-> coverage,
     covered_optionals |-> covered_optionals, raised |-> Ok(None)]

\* PairApply with new[nkey] = nkey for new[nkey] = nvalue
PairApply_StoresKey(nskeys, e, m, key, sc) ==
    IF sc.st = "raise" THEN [m EXCEPT !.x = sc.err, !.raised = sc.err]
    ELSE IF sc.st = "valid"
    THEN [m EXCEPT !.new = DictSet(m.new, sc.nkey, sc.nkey),
                   !.coverage = IF sc.skey.kind = "optional" THEN @
                                ELSE @ \cup {sc.skey},
                   !.covered_optionals = IF sc.skey.kind = "optional"
                                         THEN @ \cup {sc.skey} ELSE @]
    ELSE m

\* What one iteration of "for key, value in data.items()" does after its
\* scan sc of the schema keys
PairApply(nskeys, e, m, key, sc) ==
    IF sc.st = "raise" THEN [m EXCEPT !.x = sc.err, !.raised = sc.err]
    ELSE IF sc.st = "valid"
    THEN [m EXCEPT !.new = DictSet(m.new, sc.nkey, sc.nvalue),
                   !.coverage = IF sc.skey.kind = "optional" THEN @
                                ELSE @ \cup {sc.skey},
                   !.covered_optionals = IF sc.skey.kind = "optional"
                                         THEN @ \cup {sc.skey} ELSE @]
    ELSE IF nskeys > 0 /\ m.x # None
    THEN [m EXCEPT !.raised =
             SchemaError(PyList(<<AutoMsg("invalid value for key %r", <<key>>)>>
                                \o m.x.autos),
                         PyList(<<e>> \o m.x.errors))]
    ELSE m

\* One iteration of "for key, value in data.items()"
PairStep(s, e, data, m, key, value) ==
    PairApply(Len(s.entries), e, m, key,
              ScanKeys(sorted_skeys(s), 1, e, data, key, value))

PairsNext(s, e, data, m2, i) ==
    IF m2.raised.st # "ok" THEN m2 ELSE PairsLoop(s, e, data, m2, i + 1)

PairsLoop(s, e, data, m, i) ==
    IF i > Len(data.items) THEN m
    ELSE PairsNext(s, e, data,
                   PairStep(s, e, data, m, data.items[i][1], data.items[i][2]), i)

SchemaKeys(s) == {en[1] : en \in Range(s.entries)}
required(s) == {k \in SchemaKeys(s) : k.kind # "optional"}

\* if coverage != required: raise SchemaError('missed keys %r' % ..., e)
CheckMissed(s, e, m) ==
    IF m.coverage # required(s)
    THEN SchemaError(AutoMsg("missed keys %r", <<required(s) \ m.coverage>>), e)
    ELSE Ok(None)

\* if len(new) != len(data): raise SchemaError('wrong keys %s in %r' % ..., e)
CheckWrong(e, data, m) ==
    IF Len(m.new.items) # Len(data.items)
    THEN SchemaError(AutoMsg("wrong keys %s in %r",
                             <<DictKeys(data) \ DictKeys(m.new), data>>), e)
    ELSE Ok(None)

\* skey._schema not in data
NotInData(skey, data) ==
    ~(skey.sch.kind = "lit" /\ \E key \in DictKeys(data) : PyEq(skey.sch.lit, key))

\* the condition of the "when" loop
WhenApplies(skey, data) ==
    skey.kind = "optional" /\ skey.hasWhen /\ NotInData(skey, data)

WhenNext(skeys, i, e, data, guarded, r) ==
    IF r.st = "ok" THEN WhenLoop(skeys, i + 1, e, data, guarded)
    ELSE [r |-> r, guarded |-> guarded]

\* "Check for when conditions in optional keys", from schema key i on;
\* guarded collects the Optional keys whose guard was validated
WhenLoop(skeys, i, e, data, guarded) ==
    IF i > Len(skeys) THEN [r |-> Ok(None), guarded |-> guarded]
    ELSE IF WhenApplies(skeys[i][1], data)
    THEN WhenNext(skeys, i, e, data, guarded \cup {skeys[i][1]},
                  Validate(skeys[i][1].when, e, data, True))
    ELSE WhenLoop(skeys, i + 1, e, data, guarded)

\* defaults = set(k for k in s if type(k) is Optional and
\*                hasattr(k, 'default')) - covered_optionals
defaults(s, m) ==
    {k \in SchemaKeys(s) : k.kind = "optional" /\ k.hasDefault} \ m.covered_optionals

\* for default in defaults: new[default.key] = default.default, the set
\* iterated in the given order
ApplyDefaults(new, order) ==
    LET F[i \in 0..Len(order)] ==
          IF i = 0 THEN new ELSE DictSet(F[i - 1], order[i].sch.lit, order[i].default)
    IN F[Len(order)]

\* the sequences that list the set S once each
Orders(S) ==
    {o \in [1..Cardinality(S) -> S] : Range(o) = S}

AnyOrder(S) == CHOOSE o \in Orders(S) : TRUE

\* The DICT flavor after its loop over data.items() ended in m
DictFinish(s, e, data, m) ==
    Then(m.raised,
    Then(CheckMissed(s, e, m),
    Then(CheckWrong(e, data, m),
    Then(WhenLoop(sorted_skeys(s), 1, e, data, {}).r,
         Ok(ApplyDefaults(m.new, AnyOrder(defaults(s, m))))))))

\* The DICT flavor after the type check of data (the set of defaults is
\* iterated in one of its orders)
ValidateDict(s, e, data) ==
    DictFinish(s, e, data,
               PairsLoop(s, e, data, MatchState(Dict(<<>>), None, {}, {}), 1))

\* the ITERABLE and DICT flavors after "data = Schema(type(s)).validate(data)"
SeqTyped(s, e, parent, t) ==
    IF t.st # "ok" THEN t ELSE SeqLoop(s, e, parent, t.val.elems, 1, <<>>)

DictTyped(s, e, t) ==
    IF t.st # "ok" THEN t ELSE ValidateDict(s, e, t.val)

\* the VALIDATOR flavors: r is what the nested validate returned or raised
ValidatorResult(s, e, data, r) ==
    IF r.st = "ok" THEN r
    ELSE IF r.st = "err" THEN Rewrap(r, e)
    ELSE SchemaError(AutoMsg("%r.validate(%r) raised %r", <<s, data, r.exc>>), e)

\* the CALLABLE flavor: r is what the callable returned or raised
CallableResult(s, e, data, r) ==
    IF r.st = "exc"
    THEN SchemaError(AutoMsg("%s(%r) raised %r", <<s.fn, data, r.exc>>), e)
    ELSE IF Truthy(r.val) THEN Ok(data)
    ELSE SchemaError(AutoMsg("%s(%r) should evaluate to True", <<s.fn, data>>), e)

TypeValidate(s, e, data) ==
    IF IsInstance(data, s.ty) THEN Ok(data)
    ELSE SchemaError(AutoMsg("%r should be instance of %r", <<data, s>>), e)

ComparableValidate(s, e, data) ==
    IF PyEq(s.lit, data) THEN Ok(data)
    ELSE SchemaError(AutoMsg("%r does not match %r", <<s, data>>), e)

\* Schema(s, error=e, parent_data=parent).validate(data)
Validate(s, e, parent, data) ==
    CASE priority(s) = ITERABLE ->
              SeqTyped(s, e, parent, TypeValidate(Type("list"), e, data))
      [] priority(s) = DICT ->
              DictTyped(s, e, TypeValidate(Type("dict"), e, data))
      [] priority(s) = TYPE -> TypeValidate(s, e, data)
      [] priority(s) = VALIDATOR ->
              ValidatorResult(s, e, data, Validate(s.sch, s.error, None, data))
      [] priority(s) = VALIDATOR_WITH_PARENT_ACCESS ->
              ValidatorResult(s, e, data, ValidateWithParentAccess(s, data, parent))
      [] priority(s) = CALLABLE ->
              CallableResult(s, e, data, Call(s.fn, data, parent))
      [] OTHER -> ComparableValidate(s, e, data)

(*************************** SchemaError.code *******************************)
NL == "\n"

\* [i for i in seq if i is not None]
NotNone(seq) == SelectSeq(seq, LAMBDA i : i # None)

\* uniq that drops nothing
uniq_KeepsAll(seq) == seq

\* uniq(seq): seen is a set; an element is kept when it is not yet in seen
uniq(seq) ==
    LET F[i \in 0..Len(seq)] ==
          IF i = 0 THEN [out |-> <<>>, seen |-> {}]
          ELSE IF seq[i] \in F[i - 1].seen THEN F[i - 1]
          ELSE [out |-> Append(F[i - 1].out, seq[i]),
                seen |-> F[i - 1].seen \cup {seq[i]}]
    IN F[Len(seq)].out

\* '\n'.join(msgs), a string being the sequence of its characters
Join(msgs) ==
    LET F[i \in 0..Len(msgs)] ==
          IF i = 0 THEN <<>>
          ELSE IF i = 1 THEN msgs[1].s
          ELSE F[i - 1] \o <<NL>> \o msgs[i].s
    IN StrV(F[Len(msgs)])

\* if e: return '\n'.join(e) / return '\n'.join(a)
codeOf(a, e) == IF e # <<>> THEN Join(e) ELSE Join(a)

\* the property SchemaError.code
code(autos, errors) == codeOf(uniq(NotNone(autos)), uniq(NotNone(errors)))

(*************************** bounds and universes **************************)
MaxEntries == 2     \* schema keys of a mapping schema
MaxPairs == 2       \* pairs of an input mapping
MaxArgs == 2        \* sub-schemas of an And or an Or

KA == StrV(<<"a">>)
KB == StrV(<<"b">>)
KC == StrV(<<"c">>)
ErrE == StrV(<<"E">>)
ErrM == StrV(<<"m">>)

NoWhen == Lit(None)
\* Optional("b"), Optional("b", default=0), Optional("c", default="z"),
\* Optional("b", when=EnsureExists("a")), Optional(str, when=EnsureExists("a"))
OptB == OptionalS(Lit(KB), FALSE, None, FALSE, NoWhen)
OptBDefault == OptionalS(Lit(KB), TRUE, IntV(0), FALSE, NoWhen)
OptCDefault == OptionalS(Lit(KC), TRUE, StrV(<<"z">>), FALSE, NoWhen)
OptBWhen == OptionalS(Lit(KB), FALSE, None, TRUE, EnsureExistsS(KA, None))
OptStrWhen == OptionalS(Type("str"), FALSE, None, TRUE, EnsureExistsS(KA, None))

\* the (key, value) entries mapping schemas are built from
Entries ==
    { <<Lit(KA), Type("int")>>,
      <<Lit(KB), Type("int")>>,
      <<OptB, Type("int")>>,
      <<OptBDefault, Type("int")>>,
      <<OptCDefault, Type("int")>>,
      <<OptBWhen, Type("int")>>,
      <<OptStrWhen, Type("int")>>,
      <<Type("str"), SchemaNode(Type("str"), ErrM)>>,
      <<Pred("anyKey"), Type("int")>>,
      <<Lit(KA), EnsureS(KB, Type("object"), None)>>,
      <<Lit(KB), EnsureS(KA, Type("object"), None)>>,
      <<Lit(KC), UseS("incr", None)>> }

DistinctKeys(f) == \A i, j \in DOMAIN f : f[i][1] = f[j][1] => i = j

\* a Python dict holds a key once: the entries of a schema have distinct keys
MappingSchemas ==
    {DictS(f) : f \in {g \in UNION {[1..n -> Entries] : n \in 0..MaxEntries} :
                         DistinctKeys(g)}}

InputKeys == {KA, KB, KC}
InputValues == {IntV(1), StrV(<<"x">>)}
InputMappings ==
    {Dict(f) : f \in {g \in UNION {[1..n -> InputKeys \X InputValues] :
                                     n \in 0..MaxPairs} : DistinctKeys(g)}}

\* the sub-schemas And and Or are built from
ArgFragments ==
    { Type("int"),
      Lit(StrV(<<"x">>)),
      Pred("isPositive"),
      UseS("incr", ErrM),
      EnsureExistsS(KA, None),
      EnsureS(KA, Type("int"), None),
      SchemaNode(OrS(<<Type("str")>>, None), ErrM),
      ListS(<<Type("int")>>),
      DictS(<<<<Lit(KA), Type("int")>>, <<OptBDefault, Type("int")>>>>) }

ArgLists == UNION {[1..n -> ArgFragments] : n \in 0..MaxArgs}
Combinators ==
    {AndS(as, e) : as \in ArgLists, e \in {None, ErrE}}
      \cup {OrS(as, e) : as \in ArgLists, e \in {None, ErrE}}

\* the fragments given to Schema(...).validate as a whole
TopFragments ==
    ArgFragments
      \cup { EnsureNotExistsS(KA, ErrE),
             Pred("hasA"),
             UseS("int", None),
             AndS(<<UseS("incr", None), Pred("isPositive")>>, ErrE),
             SchemaNode(SchemaNode(Type("int"), ErrM), ErrE) }

CombInputs ==
    { IntV(0), IntV(1), StrV(<<"x">>), List(<<IntV(1)>>),
      List(<<IntV(1), StrV(<<"x">>)>>), Dict(<<<<KA, IntV(1)>>>>) }
CombParents == {None, Dict(<<<<KA, IntV(1)>>>>)}

\* the messages of the error chains that are rendered
MaxChain == 3       \* levels of an error chain
AutoTexts == {StrV(<<"x">>), StrV(<<"y">>)}
CustomTexts == {StrV(<<>>), StrV(<<"p">>), StrV(<<"q">>)}

(*************************** the state *************************************)
VARIABLES
    mode,       \* which entry point runs: "dict", "comb" or "render"
    pc,         \* the position in the running call
    result,     \* what the call returned or raised (Ok(None) while running)
    schema,     \* "dict": s, the mapping schema
    error,      \* "dict": e, the custom message of the Schema node
    input,      \* "dict": the data given to the first validate
    data,       \* "dict": the data of the running validate
    idx,        \* "dict": the next pair of data.items()
    m,          \* "dict": new, x, coverage, covered_optionals
    pass,       \* "dict": 1 for validate(x), 2 for validate(validate(x))
    first,      \* "dict": the result of pass 1
    last,       \* "dict": the scan of the pair processed last
    guarded,    \* "dict": the Optional keys whose guard was validated
    centry,     \* "comb": "validate" or "validate_with_parent_access"
    cself,      \* "comb": the fragment (self of And and Or)
    cerr,       \* "comb": the custom message of the Schema node wrapping it
    cparent,    \* "comb": parent
    cinput,     \* "comb": the data given to the call
    ci,         \* "comb": the next sub-schema of the loop
    cdata,      \* "comb": And's data, threaded through the sub-schemas
    cx,         \* "comb": Or's x, the error of the branch that failed last
    ctried,     \* "comb": the sub-schemas validate was called on, in order
    autos,      \* "render": the autos of the SchemaError
    errors,     \* "render": the errors of the SchemaError
    rendered    \* "render": its code

dictVars == <<schema, error, input, data, idx, m, pass, first, last, guarded>>
combVars == <<centry, cself, cerr, cparent, cinput, ci, cdata, cx, ctried>>
renderVars == <<autos, errors, rendered>>
vars == <<mode, pc, result, dictVars, combVars, renderVars>>

Running == Ok(None)
NoScan == [valid |-> FALSE, key |-> None, value |-> None,
           sc |-> ScanKeys(<<>>, 1, None, None, None, None), before |-> Dict(<<>>)]
EmptyMatch == MatchState(Dict(<<>>), None, {}, {})

NoDict ==
    /\ schema = None /\ error = None /\ input = None /\ data = None /\ idx = 0
    /\ m = None /\ pass = 0 /\ first = None /\ last = None /\ guarded = {}
NoComb ==
    /\ centry = "" /\ cself = None /\ cerr = None /\ cparent = None /\ cinput = None /\ ci = 0
    /\ cdata = None /\ cx = None /\ ctried = <<>>
NoRender == autos = <<>> /\ errors = <<>> /\ rendered = None

InitDict ==
    /\ mode = "dict"
    /\ pc = "type"
    /\ result = Running
    /\ schema \in MappingSchemas
    /\ error \in {None, ErrE}
    /\ input \in InputMappings \cup {IntV(1)}
    /\ data = input
    /\ idx = 1
    /\ m = EmptyMatch
    /\ pass = 1
    /\ first = Running
    /\ last = NoScan
    /\ guarded = {}
    /\ NoComb
    /\ NoRender

\* the step from pc to pc2 unless r is a raised error, which ends the call
Proceed(r, pc2) ==
    IF r.st = "ok" THEN pc' = pc2 /\ result' = result
    ELSE pc' = "done" /\ result' = r

\* data = Schema(dict, error=e).validate(data); new = type(data)(); ...
CheckDictType ==
    /\ mode = "dict" /\ pc = "type"
    /\ Proceed(TypeValidate(Type("dict"), error, data), "pairs")
    /\ UNCHANGED <<mode, dictVars, combVars, renderVars>>

ProcessPairApply(m2) ==
    /\ m' = m2
    /\ IF m2.raised.st # "ok"
       THEN pc' = "done" /\ result' = m2.raised /\ idx' = idx
       ELSE pc' = pc /\ result' = result /\ idx' = idx + 1

ProcessPairScan(key, value, sc) ==
    /\ last' = [valid |-> TRUE, key |-> key, value |-> value, sc |-> sc,
                before |-> m.new]
    /\ ProcessPairApply(PairApply(Len(schema.entries), error, m, key, sc))

\* one iteration of "for key, value in data.items()"
ProcessPair ==
    /\ mode = "dict" /\ pc = "pairs" /\ idx <= Len(data.items)
    /\ ProcessPairScan(data.items[idx][1], data.items[idx][2],
                       ScanKeys(sorted_skeys(schema), 1, error, data,
                                data.items[idx][1], data.items[idx][2]))
    /\ UNCHANGED <<mode, schema, error, input, data, pass, first, guarded>>
    /\ UNCHANGED <<combVars, renderVars>>

\* required = ...; if coverage != required: raise
CheckMissedKeys ==
    /\ mode = "dict" /\ pc = "pairs" /\ idx > Len(data.items)
    /\ Proceed(CheckMissed(schema, error, m), "wrong")
    /\ UNCHANGED <<mode, dictVars, combVars, renderVars>>

\* if len(new) != len(data): raise
CheckWrongKeys ==
    /\ mode = "dict" /\ pc = "wrong"
    /\ Proceed(CheckWrong(error, data, m), "when")
    /\ UNCHANGED <<mode, dictVars, combVars, renderVars>>

CheckWhenWith(w) ==
    /\ guarded' = w.guarded
    /\ Proceed(w.r, "defaults")

\* the loop "Check for when conditions in optional keys"
CheckWhen ==
    /\ mode = "dict" /\ pc = "when"
    /\ CheckWhenWith(WhenLoop(sorted_skeys(schema), 1, error, data, {}))
    /\ UNCHANGED <<mode, schema, error, input, data, idx, m, pass, first, last>>
    /\ UNCHANGED <<combVars, renderVars>>

\* "Apply default-having optionals that haven't been used" and return new;
\* the set defaults is iterated in an order the implementation chooses
InsertDefaults ==
    /\ mode = "dict" /\ pc = "defaults"
    /\ \E order \in Orders(defaults(schema, m)) :
          result' = Ok(ApplyDefaults(m.new, order))
    /\ pc' = "done"
    /\ UNCHANGED <<mode, dictVars, combVars, renderVars>>

\* the caller validates the returned mapping again: validate(validate(x))
Revalidate ==
    /\ mode = "dict" /\ pc = "done" /\ pass = 1 /\ result.st = "ok"
    /\ pass' = 2
    /\ first' = result
    /\ data' = result.val
    /\ idx' = 1
    /\ m' = EmptyMatch
    /\ last' = NoScan
    /\ guarded' = {}
    /\ pc' = "type"
    /\ result' = Running
    /\ UNCHANGED <<mode, schema, error, input, combVars, renderVars>>

(*************************** And, Or and Schema(...).validate **************)
\* pc = "call": Schema(cself, error=cerr, parent_data=cparent).validate(cinput)
\* pc = "loop": cself.validate_with_parent_access(cinput, cparent), cself
\*              an And or an Or, one sub-schema a step
InitComb ==
    /\ mode = "comb"
    /\ result = Running
    /\ \/ /\ centry = "validate"
          /\ pc = "call"
          /\ cself \in TopFragments
          /\ cerr \in {None, ErrE}
       \/ /\ centry = "validate_with_parent_access"
          /\ pc = "loop"
          /\ cself \in Combinators
          /\ cerr = None
    /\ cparent \in CombParents
    /\ cinput \in CombInputs
    /\ ci = 1
    /\ cdata = cinput
    /\ cx = OrStart
    /\ ctried = <<>>
    /\ NoDict
    /\ NoRender

ValidateTop ==
    /\ mode = "comb" /\ pc = "call"
    /\ result' = Validate(cself, cerr, cparent, cinput)
    /\ pc' = "done"
    /\ UNCHANGED <<mode, combVars, dictVars, renderVars>>

\* AndStepWith with "s.validate(data)" for "data = s.validate(data)"
AndStepWith_DropsOutput(r) ==
    IF r.st = "ok"
    THEN cdata' = cdata /\ ci' = ci + 1 /\ pc' = pc /\ result' = result
    ELSE cdata' = cdata /\ ci' = ci /\ pc' = "done" /\ result' = r

\* data = s.validate(data) of And's loop, r its outcome
AndStepWith(r) ==
    IF r.st = "ok"
    THEN cdata' = r.val /\ ci' = ci + 1 /\ pc' = pc /\ result' = result
    ELSE cdata' = cdata /\ ci' = ci /\ pc' = "done" /\ result' = r

AndStep ==
    /\ mode = "comb" /\ pc = "loop" /\ cself.kind = "and" /\ ci <= Len(cself.args)
    /\ AndStepWith(Validate(cself.args[ci], cself.error, cparent, cdata))
    /\ ctried' = Append(ctried, ci)
    /\ UNCHANGED <<mode, centry, cself, cerr, cparent, cinput, cx, dictVars, renderVars>>

\* return data
AndReturn ==
    /\ mode = "comb" /\ pc = "loop" /\ cself.kind = "and" /\ ci > Len(cself.args)
    /\ result' = Ok(cdata)
    /\ pc' = "done"
    /\ UNCHANGED <<mode, combVars, dictVars, renderVars>>

\* try: return s.validate(data) / except SchemaError as _x: x = _x
OrTryWith(r) ==
    IF r.st = "err"
    THEN cx' = OrCatch(cx, r) /\ ci' = ci + 1 /\ pc' = pc /\ result' = result
    ELSE cx' = cx /\ ci' = ci /\ pc' = "done" /\ result' = r

OrTry ==
    /\ mode = "comb" /\ pc = "loop" /\ cself.kind = "or" /\ ci <= Len(cself.args)
    /\ OrTryWith(Validate(cself.args[ci], cself.error, cparent, cinput))
    /\ ctried' = Append(ctried, ci)
    /\ UNCHANGED <<mode, centry, cself, cerr, cparent, cinput, cdata, dictVars, renderVars>>

\* raise SchemaError([...] + x.autos, [self._error] + x.errors)
OrExhausted ==
    /\ mode = "comb" /\ pc = "loop" /\ cself.kind = "or" /\ ci > Len(cself.args)
    /\ result' = OrRaise(cself, cinput, cx)
    /\ pc' = "done"
    /\ UNCHANGED <<mode, combVars, dictVars, renderVars>>

(*************************** error chains and their rendering **************)
\* A SchemaError as it travels up the recursion: raised by a leaf with one
\* entry a channel, then rewrapped by the Schema nodes and the Ors above.
InitRender ==
    /\ mode = "render"
    /\ pc = "raised"
    /\ result = Running
    /\ \E a \in AutoTexts, e \in CustomTexts \cup {None} :
          /\ autos = SchemaError(a, e).autos
          /\ errors = SchemaError(a, e).errors
    /\ rendered = None
    /\ NoDict
    /\ NoComb

\* raise SchemaError([None] + x.autos, [e] + x.errors)
WrapValidator ==
    /\ mode = "render" /\ pc = "raised" /\ Len(autos) < MaxChain
    /\ \E e \in CustomTexts \cup {None} :
          /\ autos' = Rewrap([autos |-> autos, errors |-> errors], e).autos
          /\ errors' = Rewrap([autos |-> autos, errors |-> errors], e).errors
    /\ UNCHANGED <<mode, pc, result, rendered, dictVars, combVars>>

\* raise SchemaError(['%r did not validate %r' % ...] + x.autos,
\*                   [self._error] + x.errors)
WrapOr ==
    /\ mode = "render" /\ pc = "raised" /\ Len(autos) < MaxChain
    /\ \E a \in AutoTexts, e \in CustomTexts \cup {None} :
          /\ autos' = <<a>> \o autos
          /\ errors' = <<e>> \o errors
    /\ UNCHANGED <<mode, pc, result, rendered, dictVars, combVars>>

\* Exception.__init__(self, self.code)
Render ==
    /\ mode = "render" /\ pc = "raised"
    /\ rendered' = code(autos, errors)
    /\ pc' = "rendered"
    /\ UNCHANGED <<mode, result, autos, errors, dictVars, combVars>>

Init == InitDict \/ InitComb \/ InitRender

Next ==
    \/ CheckDictType
    \/ ProcessPair
    \/ CheckMissedKeys
    \/ CheckWrongKeys
    \/ CheckWhen
    \/ InsertDefaults
    \/ Revalidate
    \/ ValidateTop
    \/ AndStep
    \/ AndReturn
    \/ OrTry
    \/ OrExhausted
    \/ WrapValidator
    \/ WrapOr
    \/ Render

Spec == Init /\ [][Next]_vars

(*************************** properties ***********************************)
DictDone == mode = "dict" /\ pc = "done"

\* The loop of the mapping matcher, a pair a step, and the engine's DICT
\* flavor as one operator agree.
EngineAgrees ==
    (DictDone /\ pass = 1) =>
        LET r == Validate(schema, error, None, input)
        IN IF result.st = "ok"
           THEN r.st = "ok" /\ DictEq(r.val, result.val)
           ELSE r = result

\* the key a literal or Optional-wrapped literal schema key stands for
KeyOf(k) == IF k.kind = "optional" THEN k.sch.lit ELSE k.lit

LiteralKeys(s) ==
    \A k \in SchemaKeys(s) :
        \/ k.kind = "lit"
        \/ k.kind = "optional" /\ k.sch.kind = "lit" /\ ~k.hasWhen

C1_EntriesFor(key) == {en \in Range(schema.entries) : KeyOf(en[1]) = key}
C1_ValuesValidate ==
    \A it \in Range(input.items) : \A en \in C1_EntriesFor(it[1]) :
        Validate(en[2], error, input, it[2]).st = "ok"
C1_Missed ==
    \E k \in required(schema) : \A key \in DictKeys(input) : KeyOf(k) # key
C1_Wrong ==
    \E key \in DictKeys(input) : C1_EntriesFor(key) = {}
C1_Pairs ==
    UNION {{<<it[1], Validate(en[2], error, input, it[2]).val>> :
               en \in C1_EntriesFor(it[1])} : it \in Range(input.items)}
C1_Defaults ==
    {<<KeyOf(k), k.default>> :
        k \in {o \in SchemaKeys(schema) :
                 o.kind = "optional" /\ o.hasDefault /\ ~DictHas(input, KeyOf(o))}}
FailsWith(r, fmt) ==
    r.st = "err" /\ r.autos # <<>> /\ r.autos[1] # None /\ r.autos[1].msg[1] = fmt

\* C1: for a mapping schema with literal (or Optional-wrapped literal) keys
\* and an input mapping whose matched values validate, validate (a) fails
\* with 'missed keys' if a non-Optional schema key equals no input key,
\* (b) otherwise fails with 'wrong keys' if an input key equals no schema
\* key, (c) otherwise returns exactly the validated input pairs plus
\* (key, default) for every Optional key with a default absent from the input.
C1_LiteralKeyMapping ==
    (DictDone /\ pass = 1 /\ input.k = "dict" /\ LiteralKeys(schema)
       /\ C1_ValuesValidate) =>
        IF C1_Missed THEN FailsWith(result, "missed keys %r")
        ELSE IF C1_Wrong THEN FailsWith(result, "wrong keys %s in %r")
        ELSE result.st = "ok"
             /\ Range(result.val.items) = C1_Pairs \cup C1_Defaults

\* C2: when the value of an accepted input key fails validation, the
\* mapping validation fails at once, and the error that leaves the mapping
\* matcher is the nested error with one more level: the auto-message
\* 'invalid value for key <key>' and the mapping node's own custom message.
C2_ValueErrorWrapped ==
    (mode = "dict" /\ last.valid /\ last.sc.st = "raise") =>
        /\ pc = "done"
        /\ result.st = "err"
        /\ result.autos = <<AutoMsg("invalid value for key %r", <<last.key>>)>>
                            \o last.sc.err.autos
        /\ result.errors = <<error>> \o last.sc.err.errors

C3_Reached ==
    /\ mode = "dict" /\ pass = 1 /\ pc \in {"defaults", "done"}
    /\ input.k = "dict" /\ idx > Len(data.items)
    /\ CheckMissed(schema, error, m).st = "ok"
    /\ CheckWrong(error, data, m).st = "ok"
C3_Due ==
    {k \in SchemaKeys(schema) :
        k.kind = "optional" /\ k.hasWhen /\ k \notin m.covered_optionals}
C3_GuardHolds(k) == Validate(k.when, error, data, True).st = "ok"

\* C3: once the missed-keys and wrong-keys checks have passed, the guard of
\* an Optional key is validated only if the key declares one and was not
\* covered; the validation fails if such a guard fails, and otherwise every
\* such guard was validated and the guards have no effect on the result.
C3_WhenGuard ==
    C3_Reached =>
        /\ guarded \subseteq C3_Due
        /\ IF \A k \in C3_Due : C3_GuardHolds(k)
           THEN guarded = C3_Due /\ (pc = "defaults" \/ result.st = "ok")
           ELSE pc = "done" /\ result.st = "err"

RECURSIVE Contains(_, _)
\* whether fragment f holds a fragment of one of the kinds ("default": an
\* Optional key with a default), at any depth
Contains(f, kinds) ==
    \/ f.kind \in kinds
    \/ f.kind \in {"schema", "optional"} /\ Contains(f.sch, kinds)
    \/ f.kind = "optional" /\ f.hasWhen /\ Contains(f.when, kinds)
    \/ f.kind = "optional" /\ f.hasDefault /\ "default" \in kinds
    \/ f.kind \in {"and", "or"} /\ \E i \in DOMAIN f.args : Contains(f.args[i], kinds)
    \/ f.kind = "ensure" /\ Contains(f.val, kinds)
    \/ f.kind = "list" /\ \E i \in DOMAIN f.alts : Contains(f.alts[i], kinds)
    \/ f.kind = "dict" /\ \E i \in DOMAIN f.entries :
          Contains(f.entries[i][1], kinds) \/ Contains(f.entries[i][2], kinds)

C4_SecondDone == DictDone /\ pass = 2
C4_Same == result.st = "ok" /\ DictEq(result.val, first.val)
\* a sequence or mapping schema given to Schema(...).validate has accepted
C4_Accepted ==
    /\ mode = "comb" /\ centry = "validate" /\ pc = "done"
    /\ cself.kind \in {"list", "dict"} /\ result.st = "ok"
C4_SameAgain == Validate(cself, cerr, cparent, result.val) = result
C4_Plain(s) == ~Contains(s, {"use", "ensure"}) /\ ~Contains(s, {"default"})

\* C4 as stated: for a mapping or sequence schema without Use, Optional
\* defaults included, validating an accepted input's output again succeeds
\* and returns an equal value.
C4_Idempotent ==
    /\ (C4_SecondDone /\ ~Contains(schema, {"use"})) => C4_Same
    /\ (C4_Accepted /\ ~Contains(cself, {"use"})) => C4_SameAgain

\* C4 as amended: for a mapping or sequence schema without Use, without
\* Ensure and without Optional defaults, validate(validate(x)) == validate(x).
C4_IdempotentNoDefaults ==
    /\ (C4_SecondDone /\ C4_Plain(schema)) => C4_Same
    /\ (C4_Accepted /\ C4_Plain(cself)) => C4_SameAgain

C4_Witness ==
    /\ C4_SecondDone /\ C4_Plain(schema) /\ C4_Same
    /\ Len(result.val.items) = 2
    /\ \E k \in SchemaKeys(schema) : k.kind = "optional" /\ k.hasWhen

LoopDone(kind) ==
    mode = "comb" /\ centry = "validate_with_parent_access" /\ pc = "done"
    /\ cself.kind = kind

\* what sub-schema i of the combinator does with data d
Branch(i, d) == Validate(cself.args[i], cself.error, cparent, d)
UpTo(n) == [i \in 1..n |-> i]

C5_Succeeding == {i \in DOMAIN cself.args : Branch(i, cinput).st = "ok"}
C5_First == CHOOSE i \in C5_Succeeding : \A j \in C5_Succeeding : i <= j
C5_LastAutos ==
    IF cself.args = <<>> THEN <<>> ELSE Branch(Len(cself.args), cinput).autos
C5_LastErrors ==
    IF cself.args = <<>> THEN <<>> ELSE Branch(Len(cself.args), cinput).errors

\* C5: Or returns the output of the first sub-schema, in declaration order,
\* that accepts the input and attempts no later one; if none accepts it
\* (also when there is none) it fails with autos = [the message naming the
\* Or and the input] + the autos of the last sub-schema, and errors = [the
\* Or's own message] + the errors of the last sub-schema.
C5_Disjunction ==
    LoopDone("or") =>
        IF C5_Succeeding # {}
        THEN result = Branch(C5_First, cinput) /\ ctried = UpTo(C5_First)
        ELSE /\ result.st = "err"
             /\ result.autos =
                  <<AutoMsg("%r did not validate %r", <<cself, cinput>>)>>
                    \o C5_LastAutos
             /\ result.errors = <<cself.error>> \o C5_LastErrors
             /\ ctried = UpTo(Len(cself.args))

C5_Witness ==
    /\ LoopDone("or") /\ Len(cself.args) = 2 /\ C5_Succeeding = {}
    /\ Branch(1, cinput).autos # Branch(2, cinput).autos
    /\ Len(result.autos) = 1 + Len(Branch(2, cinput).autos)

RECURSIVE C8_Thread(_)
\* the outcome of the first i sub-schemas of the And, each given the output
\* of the one before it
C8_Thread(i) ==
    IF i = 0 THEN Ok(cinput)
    ELSE IF C8_Thread(i - 1).st # "ok" THEN C8_Thread(i - 1)
    ELSE Branch(i, C8_Thread(i - 1).val)

C8_Failing == {i \in DOMAIN cself.args : C8_Thread(i).st # "ok"}
C8_Stop ==
    IF C8_Failing = {} THEN Len(cself.args)
    ELSE CHOOSE i \in C8_Failing : \A j \in C8_Failing : i <= j

\* C8: And gives each sub-schema the output of the one before it (the first
\* one the input) and the same parent, and returns the last output (the
\* input when it has no sub-schema); at the first sub-schema that fails it
\* fails with exactly that error, and validates no later sub-schema.
C8_Conjunction ==
    LoopDone("and") =>
        /\ result = C8_Thread(Len(cself.args))
        /\ ctried = UpTo(C8_Stop)

C8_Witness ==
    /\ LoopDone("and") /\ Len(cself.args) = 2 /\ result.st = "ok"
    /\ Branch(1, cinput).val # cinput
    /\ Branch(2, cinput).st # "ok"

Balanced(r) == r.st = "err" => Len(r.autos) = Len(r.errors)
OneMore(outer, inner) ==
    /\ Len(outer.autos) = Len(inner.autos) + 1
    /\ Len(outer.errors) = Len(inner.errors) + 1

\* what the fragment given to Schema(...).validate raises by itself
C10_Inner ==
    IF priority(cself) = VALIDATOR THEN Validate(cself.sch, cself.error, None, cinput)
    ELSE ValidateWithParentAccess(cself, cinput, cparent)

\* C10: every SchemaError the engine raises has autos and errors of the
\* same length, and every level that wraps an error adds one entry to each.
C10_ParallelChannels ==
    /\ Balanced(result)
    /\ mode = "dict" =>
          Balanced(m.raised) /\ Balanced(last.sc.err) /\ Balanced(first)
    /\ mode = "comb" => Balanced(cx)
    /\ (LoopDone("or") /\ result.st = "err") => OneMore(result, cx)
    /\ (mode = "comb" /\ centry = "validate" /\ pc = "done"
          /\ priority(cself) \in {VALIDATOR, VALIDATOR_WITH_PARENT_ACCESS}
          /\ C10_Inner.st = "err") =>
          result.st = "err" /\ OneMore(result, C10_Inner)
    /\ mode = "render" => Len(autos) = Len(errors)

C10_Witness ==
    /\ LoopDone("or") /\ result.st = "err"
    /\ Len(result.autos) >= 4 /\ Len(result.errors) = Len(result.autos)

(*************************** C6: rendering ********************************)
\* seq without its absent-message markers
Stripped(seq) == SelectSeq(seq, LAMBDA x : x # None)
\* seq with, of equal entries, only the first kept
FirstOccurrences(seq) ==
    LET F[i \in 0..Len(seq)] ==
          IF i = 0 THEN <<>>
          ELSE IF \E j \in 1..(i - 1) : seq[j] = seq[i] THEN F[i - 1]
          ELSE Append(F[i - 1], seq[i])
    IN F[Len(seq)]
Infix(a, b) ==
    \E k \in 1..(Len(b) - Len(a) + 1) : SubSeq(b, k, k + Len(a) - 1) = a
NoAutoIn(text) ==
    \A i \in DOMAIN autos : autos[i] # None => ~Infix(autos[i].s, text.s)
OuterThenInner ==
    (Len(errors) = 2 /\ errors[1] # None /\ errors[2] # None
       /\ errors[1] # errors[2]) =>
        rendered.s = errors[1].s \o <<NL>> \o errors[2].s

C6_Renders(custom) ==
    /\ IF custom
       THEN rendered = Join(FirstOccurrences(Stripped(errors))) /\ NoAutoIn(rendered)
       ELSE rendered = Join(FirstOccurrences(Stripped(autos)))
    /\ OuterThenInner

\* C6 as stated: the rendered message is the newline-join of the custom
\* messages (absent ones dropped, duplicates dropped keeping the first) and
\* holds no auto message if some non-empty custom message exists, and the
\* newline-join of the auto messages only if none exists; an outer and an
\* inner custom message render as outer, then inner.
C6_Rendering ==
    (mode = "render" /\ pc = "rendered") =>
        C6_Renders(\E i \in DOMAIN errors : errors[i] # None /\ errors[i].s # <<>>)

\* C6 as amended: the same, with "some custom message that is not the
\* absent marker exists (an empty string counts)" for "some non-empty
\* custom message exists".
C6_RenderingPresent ==
    (mode = "render" /\ pc = "rendered") =>
        C6_Renders(\E i \in DOMAIN errors : errors[i] # None)

C6_Witness ==
    /\ mode = "render" /\ pc = "rendered" /\ Len(errors) = 3
    /\ errors[1] = errors[3] /\ errors[1] # None /\ errors[1].s # <<>>
    /\ errors[2] # None /\ errors[2] # errors[1]
    /\ rendered.s = errors[1].s \o <<NL>> \o errors[2].s

(*************************** C7, C9 ***************************************)
C7_Accepting ==
    {en \in Range(schema.entries) : Validate(en[1], error, data, last.key).st = "ok"}
C7_Before(en) == {o \in Range(schema.entries) : priority(o[1]) < priority(en[1])}
C7_UpTo(en) == {o \in Range(schema.entries) : priority(o[1]) <= priority(en[1])}
C7_Decides(en) ==
    /\ last.sc.skey = en[1]
    /\ \A o \in C7_Accepting : priority(en[1]) <= priority(o[1])
    /\ Cardinality(C7_Before(en)) < last.sc.tried
    /\ last.sc.tried <= Cardinality(C7_UpTo(en))
    /\ IF Validate(en[2], error, data, last.value).st = "ok"
       THEN /\ last.sc.st = "valid"
            /\ m.raised.st = "ok"
            /\ m.new = DictSet(last.before,
                               Validate(en[1], error, data, last.key).val,
                               Validate(en[2], error, data, last.value).val)
       ELSE /\ last.sc.st = "raise"
            /\ m.new = last.before
            /\ pc = "done"
            /\ result = Validate(en[2], error, data, last.value)

\* C7: for each input pair the schema keys are scanned in ascending category
\* order; the value is validated against the schema value of the first
\* schema key accepting the input key, and of no other; a pair that no
\* schema key accepts adds nothing to the output and raises no error.
C7_MatchingOrder ==
    (mode = "dict" /\ last.valid) =>
        IF C7_Accepting = {}
        THEN /\ last.sc.st = "none"
             /\ last.sc.tried = Len(schema.entries)
             /\ m.new = last.before
             /\ m.raised.st = "ok"
        ELSE \E en \in C7_Accepting : C7_Decides(en)

C7_Witness ==
    /\ mode = "dict" /\ last.valid /\ last.sc.st = "valid"
    /\ Len(schema.entries) = 2
    /\ Range(schema.entries) = C7_Accepting
    /\ priority(schema.entries[1][1]) > priority(schema.entries[2][1])
    /\ last.sc.skey = schema.entries[2][1]

C9_ValidatedForms(it) ==
    {r.val : r \in {q \in {Validate(en[2], error, input, it[2]) :
                              en \in Range(schema.entries)} : q.st = "ok"}}

\* C9: in the output of a successful mapping validation every key of the
\* input maps to the validated form of the input's own value; a default
\* never replaces it.
C9_DefaultsKeepInput ==
    (DictDone /\ pass = 1 /\ result.st = "ok") =>
        \A it \in Range(input.items) :
            /\ DictHas(result.val, it[1])
            /\ DictGet(result.val, it[1]) \in C9_ValidatedForms(it)

====
